---- MODULE Spec2Model ----
(***************************************************************************)
(* Movie catalog explorer: the list view (ListPage), the detail view       *)
(* (DetailPage) and the session store that bridges the identifier          *)
(* sequence between them.                                                  *)
(*                                                                         *)
(* Conventions                                                             *)
(*   - a JavaScript string is a sequence of one-character strings;         *)
(*   - a nullable value is <<>> (null/undefined) or <<v>>;                 *)
(*   - a movie is its id; its fields are the operators Title, VoteAverage, *)
(*     GenreIdsOf, ReleaseDate of the id;                                  *)
(*   - vote_average is kept in tenths (7.5 is 75).                         *)
(***************************************************************************)
EXTENDS Integers, Sequences, FiniteSets, TLC

(***************************************************************************)
(* Bounds of the model                                                     *)
(***************************************************************************)
\* number of pages the remote service has for the popular listing
PopularPages == 2
\* number of pages the remote service has for a search
SearchPages == 1
\* fetches of one view that may be awaiting their response at once
MaxInFlight == 2

(***************************************************************************)
(* The remote catalog (the service behind src/api/tmdb.ts)                 *)
(***************************************************************************)
MovieIdSet == {1, 2, 3, 4}

\* the items a response may carry in SpecDerive
DeriveItems == MovieIdSet \cup {5}

Title(m) ==
  CASE m = 1 -> <<"b">>
    [] m = 2 -> <<"a">>
    [] m = 3 -> <<"b">>
    [] m = 4 -> <<"c">>
    [] OTHER -> <<"a">>

VoteAverage(m) ==
  CASE m = 1 -> 70
    [] m = 2 -> 85
    [] m = 3 -> 70
    [] m = 4 -> 60
    [] OTHER -> 85

GenreIdsOf(m) ==
  CASE m = 1 -> {1, 2}
    [] m = 2 -> {1}
    [] m = 3 -> {2}
    [] m = 4 -> {1, 2}
    [] OTHER -> {1, 3}

\* release_date; <<>> is the empty string, <<d>> a date d days after some epoch
ReleaseDate(m) ==
  CASE m = 1 -> <<300>>
    [] m = 2 -> <<100>>
    [] m = 3 -> <<200>>
    [] m = 4 -> <<>>
    [] OTHER -> <<100>>

GenreCatalog == <<1, 2>>

\* result of GET /genre/movie/list in SpecDerive
DeriveGenreCatalog == <<1, 2, 3>>

\* results of GET /movie/popular?page=p
PopularResults(p) ==
  IF p > PopularPages THEN <<>>
  ELSE IF p = 1 THEN <<1, 2, 3>> ELSE IF p = 2 THEN <<4>> ELSE <<2>>

\* results of GET /search/movie?query=q&page=p
SearchResults(q, p) ==
  IF p > SearchPages THEN <<>>
  ELSE IF p = 1 THEN <<4, 2>> ELSE <<1>>

(***************************************************************************)
(* Strings                                                                 *)
(***************************************************************************)
IsSpace(c) == c = " "

RECURSIVE TrimStart(_)
TrimStart(s) ==
  IF s # <<>> /\ IsSpace(Head(s)) THEN TrimStart(Tail(s)) ELSE s

RECURSIVE TrimEnd(_)
TrimEnd(s) ==
  IF s # <<>> /\ IsSpace(s[Len(s)]) THEN TrimEnd(SubSeq(s, 1, Len(s) - 1)) ELSE s

\* String.prototype.trim
Trim(s) == TrimEnd(TrimStart(s))

\* the values the search box takes in Spec: empty, and "ab " (a search for "ab")
Queries == {<<>>, <<"a", "b", " ">>}

\* the values the search box takes in SpecSearch: texts whose trimmed length
\* is 0, 1 and 2, with and without surrounding spaces
SearchTexts ==
  {<<>>, <<" ">>, <<"a">>, <<" ", "a">>, <<"a", " ">>, <<"a", "b">>,
   <<" ", "a", "b">>, <<"a", "b", " ">>}


(***************************************************************************)
(* JSON, as far as the session store needs it                              *)
(***************************************************************************)
Digits == <<"0", "1", "2", "3", "4", "5", "6", "7", "8", "9">>

IsDigit(c) == \E i \in 1..Len(Digits) : Digits[i] = c

DigitValue(c) == (CHOOSE i \in 1..Len(Digits) : Digits[i] = c) - 1

RECURSIVE NumberToString(_)
NumberToString(n) ==
  IF n < 10 THEN <<Digits[n + 1]>>
  ELSE NumberToString(n \div 10) \o <<Digits[(n % 10) + 1]>>

RECURSIVE JoinNumbers(_)
JoinNumbers(ids) ==
  IF ids = <<>> THEN <<>>
  ELSE IF Len(ids) = 1 THEN NumberToString(ids[1])
  ELSE NumberToString(ids[1]) \o <<",">> \o JoinNumbers(Tail(ids))

\* JSON.stringify of an array of numbers
JSONStringify(ids) == <<"[">> \o JoinNumbers(ids) \o <<"]">>

\* the longest prefix of s made of digits
RECURSIVE DigitPrefix(_)
DigitPrefix(s) ==
  IF s # <<>> /\ IsDigit(Head(s)) THEN <<Head(s)>> \o DigitPrefix(Tail(s)) ELSE <<>>

RECURSIVE StringToNumber(_)
StringToNumber(ds) ==
  IF Len(ds) = 1 THEN DigitValue(ds[1])
  ELSE 10 * StringToNumber(SubSeq(ds, 1, Len(ds) - 1)) + DigitValue(ds[Len(ds)])

ParseThrows == [threw |-> TRUE, isArray |-> FALSE, items |-> <<>>]
ParsedArray(items) == [threw |-> FALSE, isArray |-> TRUE, items |-> items]
ParsedOther == [threw |-> FALSE, isArray |-> FALSE, items |-> <<>>]

\* the elements of an array after "[": number ("," number)* "]" and the end of input
RECURSIVE ParseElements(_, _)
ParseElements(s, acc) ==
  LET ds == DigitPrefix(s)
      rest == SubSeq(s, Len(ds) + 1, Len(s))
  IN IF ds = <<>> \/ (Len(ds) > 1 /\ ds[1] = "0") \/ rest = <<>> THEN ParseThrows
     ELSE IF rest = <<"]">> THEN ParsedArray(Append(acc, StringToNumber(ds)))
     ELSE IF Head(rest) = "," THEN ParseElements(Tail(rest), Append(acc, StringToNumber(ds)))
     ELSE ParseThrows

\* JSON.parse on the texts the store can hold: arrays of numbers, a number,
\* {} and null parse; every other text throws
JSONParse(s) ==
  IF s = <<"[", "]">> THEN ParsedArray(<<>>)
  ELSE IF s # <<>> /\ Head(s) = "[" THEN ParseElements(Tail(s), <<>>)
  ELSE IF s = <<"{", "}">> \/ s = <<"n", "u", "l", "l">> THEN ParsedOther
  ELSE IF s # <<>> /\ DigitPrefix(s) = s /\ (Len(s) = 1 \/ s[1] # "0") THEN ParsedOther
  ELSE ParseThrows

(***************************************************************************)
(* Filter/sort of the list view: filteredAndSortedMovies                   *)
(***************************************************************************)
SortOptions ==
  {"popularity.desc", "title.asc", "title.desc", "rating.desc", "rating.asc",
   "release_date.desc", "release_date.asc"}

\* the options picked in the sort dropdown in Spec
SortChoices == {"popularity.desc", "title.asc", "release_date.desc"}

Alphabet == <<"a", "b", "c">>

CollationRank(c) == CHOOSE i \in 1..Len(Alphabet) : Alphabet[i] = c

\* String.prototype.localeCompare on titles over Alphabet: negative, 0 or positive
RECURSIVE LocaleCompare(_, _)
LocaleCompare(s, t) ==
  IF s = <<>> /\ t = <<>> THEN 0
  ELSE IF s = <<>> THEN -1
  ELSE IF t = <<>> THEN 1
  ELSE IF CollationRank(Head(s)) < CollationRank(Head(t)) THEN -1
  ELSE IF CollationRank(Head(s)) > CollationRank(Head(t)) THEN 1
  ELSE LocaleCompare(Tail(s), Tail(t))

\* new Date(release_date).getTime(): <<>> is NaN (empty or unparseable date)
GetTime(date) == date

\* x - y on numbers that may be NaN
Minus(x, y) == IF x = <<>> \/ y = <<>> THEN <<>> ELSE <<x[1] - y[1]>>

\* the comparator handed to Array.prototype.sort; <<>> is NaN
Comparator(a, b, opt) ==
  CASE opt = "title.asc" -> <<LocaleCompare(Title(a), Title(b))>>
    [] opt = "title.desc" -> <<LocaleCompare(Title(b), Title(a))>>
    [] opt = "rating.desc" -> <<VoteAverage(b) - VoteAverage(a)>>
    [] opt = "rating.asc" -> <<VoteAverage(a) - VoteAverage(b)>>
    [] opt = "release_date.desc" -> Minus(GetTime(ReleaseDate(b)), GetTime(ReleaseDate(a)))
    [] opt = "release_date.asc" -> Minus(GetTime(ReleaseDate(a)), GetTime(ReleaseDate(b)))
    [] OTHER -> <<VoteAverage(b) - VoteAverage(a)>>

\* Array.prototype.sort reads a NaN from the comparator as +0
SortCompare(a, b, opt) ==
  LET v == Comparator(a, b, opt) IN IF v = <<>> THEN 0 ELSE v[1]

\* x put into the sorted s behind every element that does not compare greater
RECURSIVE InsertSorted(_, _, _)
InsertSorted(x, s, opt) ==
  IF s = <<>> THEN <<x>>
  ELSE IF SortCompare(s[Len(s)], x, opt) > 0
       THEN Append(InsertSorted(x, SubSeq(s, 1, Len(s) - 1), opt), s[Len(s)])
       ELSE Append(s, x)

RECURSIVE SortFrom(_, _, _)
SortFrom(done, todo, opt) ==
  IF todo = <<>> THEN done
  ELSE SortFrom(InsertSorted(Head(todo), done, opt), Tail(todo), opt)

\* a sort engine that inserts each element from the right end of the sorted part
InsertionSort(s, opt) == SortFrom(<<>>, s, opt)

Reverse(s) == [i \in 1..Len(s) |-> s[Len(s) + 1 - i]]

\* the length of the run s starts with: strictly descending if its second
\* element compares less than its first, else not descending
RECURSIVE RunLength(_, _, _, _)
RunLength(s, k, isDescending, opt) ==
  IF k >= Len(s) THEN Len(s)
  ELSE LET order == SortCompare(s[k + 1], s[k], opt)
       IN IF isDescending = (order < 0)
          THEN RunLength(s, k + 1, isDescending, opt)
          ELSE k

\* the 0-based position a binary search over s[left+1..right] finds for pivot
RECURSIVE BinarySearch(_, _, _, _, _)
BinarySearch(pivot, s, left, right, opt) ==
  IF left >= right THEN left
  ELSE LET mid == left + ((right - left) \div 2)
       IN IF SortCompare(pivot, s[mid + 1], opt) < 0
          THEN BinarySearch(pivot, s, left, mid, opt)
          ELSE BinarySearch(pivot, s, mid + 1, right, opt)

RECURSIVE BinarySortFrom(_, _, _)
BinarySortFrom(done, todo, opt) ==
  IF todo = <<>> THEN done
  ELSE LET p == BinarySearch(Head(todo), done, 0, Len(done), opt)
       IN BinarySortFrom(SubSeq(done, 1, p) \o <<Head(todo)>> \o
                           SubSeq(done, p + 1, Len(done)),
                         Tail(todo), opt)

\* the engine below returning its first run without the other elements
BinaryInsertionSort_RunOnly(s, opt) ==
  IF Len(s) < 2 THEN s
  ELSE LET isDescending == SortCompare(s[2], s[1], opt) < 0
           n == RunLength(s, 2, isDescending, opt)
       IN IF isDescending THEN Reverse(SubSeq(s, 1, n)) ELSE SubSeq(s, 1, n)

\* a sort engine that takes the first run, reversed if it descends, and
\* places the other elements into it by binary search (arrays shorter than
\* the engine's minimum run length)
BinaryInsertionSort(s, opt) ==
  IF Len(s) < 2 THEN s
  ELSE LET isDescending == SortCompare(s[2], s[1], opt) < 0
           n == RunLength(s, 2, isDescending, opt)
           run == IF isDescending THEN Reverse(SubSeq(s, 1, n)) ELSE SubSeq(s, 1, n)
       IN BinarySortFrom(run, SubSeq(s, n + 1, Len(s)), opt)

\* two sorted blocks merged: the right head goes first only if it compares less
RECURSIVE Merge(_, _, _)
Merge(left, right, opt) ==
  IF right = <<>> THEN left
  ELSE IF left = <<>> \/ SortCompare(Head(right), Head(left), opt) < 0
       THEN <<Head(right)>> \o Merge(left, Tail(right), opt)
       ELSE <<Head(left)>> \o Merge(Tail(left), right, opt)

\* one pass over s: its blocks of the given width merged two by two
RECURSIVE MergePass(_, _, _)
MergePass(s, width, opt) ==
  IF Len(s) <= width THEN s
  ELSE LET rightEnd == IF 2 * width < Len(s) THEN 2 * width ELSE Len(s)
       IN Merge(SubSeq(s, 1, width), SubSeq(s, width + 1, rightEnd), opt) \o
          MergePass(SubSeq(s, rightEnd + 1, Len(s)), width, opt)

RECURSIVE MergeFrom(_, _, _)
MergeFrom(s, width, opt) ==
  IF width >= Len(s) THEN s
  ELSE MergeFrom(MergePass(s, width, opt), 2 * width, opt)

\* a sort engine that merges bottom-up, from blocks of width 1
MergeSort(s, opt) == MergeFrom(s, 1, opt)

\* the sort algorithms a JavaScript engine may run: all are stable and agree
\* on a consistent comparator; on any other the order is the engine's
SortEngines == {"insertion", "binary", "merge"}

\* Array.prototype.sort as the given engine runs it
ArraySort(engine, s, opt) ==
  CASE engine = "insertion" -> InsertionSort(s, opt)
    [] engine = "binary" -> BinaryInsertionSort(s, opt)
    [] OTHER -> MergeSort(s, opt)

\* selectedGenres.every(genreId => movie.genre_ids.includes(genreId))
MatchesGenres(m, sel) == \A i \in 1..Len(sel) : sel[i] \in GenreIdsOf(m)

FilterByGenres(ms, sel) ==
  IF Len(sel) > 0 THEN SelectSeq(ms, LAMBDA m : MatchesGenres(m, sel)) ELSE ms

\* the body of the filteredAndSortedMovies memo, run by the given engine
ComputeFilteredAndSorted(engine, ms, sel, opt) ==
  ArraySort(engine, FilterByGenres(ms, sel), opt)

\* the lists the memo may hold for these inputs, one per engine
DisplayedOutcomes(ms, sel, opt) ==
  {ComputeFilteredAndSorted(engine, ms, sel, opt) : engine \in SortEngines}

\* the movieIds memo mapping the displayed list without its first item
IdsOf_SkipsFirst(ms) == [i \in 1..(Len(ms) - 1) |-> ms[i + 1]]

\* the movieIds memo: filteredAndSortedMovies.map(movie => movie.id)
IdsOf(ms) == [i \in 1..Len(ms) |-> ms[i]]

(***************************************************************************)
(* The stepper of the detail view: handleNavigation                        *)
(***************************************************************************)
\* an indexOf counting positions from 1
IndexOf_OneBased(s, x) ==
  IF \E i \in 1..Len(s) : s[i] = x
  THEN CHOOSE i \in 1..Len(s) : s[i] = x /\ \A j \in 1..(i - 1) : s[j] # x
  ELSE -1

\* Array.prototype.indexOf: 0-based index of the first occurrence, or -1
IndexOf(s, x) ==
  IF \E i \in 1..Len(s) : s[i] = x
  THEN (CHOOSE i \in 1..Len(s) : s[i] = x /\ \A j \in 1..(i - 1) : s[j] # x) - 1
  ELSE -1

\* the two directions swapped
NextIndex_Swapped(direction, currentIndex, length) ==
  IF direction = "next" THEN (currentIndex - 1 + length) % length
  ELSE (currentIndex + 1) % length

NextIndex(direction, currentIndex, length) ==
  IF direction = "next" THEN (currentIndex + 1) % length
  ELSE (currentIndex - 1 + length) % length

\* 0-based element access
At(s, i) == s[i + 1]

Directions == {"prev", "next"}

(***************************************************************************)
(* State                                                                   *)
(***************************************************************************)
VARIABLES
  view,                     \* the page that is mounted: "list", "detail" or
                            \* "gallery"; "crashed" once an error thrown by a
                            \* render has made React remove the whole tree
  store,                    \* sessionStorage["tmdb.movieIds"]: <<>> or <<text>>
  storage,                  \* sessionStorage itself: "ok"; "full", where setItem
                            \* throws; "denied", where getItem and setItem throw
  sortEngine,               \* the Array.prototype.sort of the JavaScript engine
                            \* the session runs in: one of SortEngines
  backEntry,                \* the detail entry behind the current one in the
                            \* browser history, <<>> if none: <<[id, state]>>
  movies,                   \* ListPage: raw items of the last applied response
  query,
  isLoading,
  genres,
  genresPending,            \* ListPage: getGenres() has not settled yet
  selectedGenres,
  sortOption,
  currentPage,
  totalPages,
  filteredAndSortedMovies,  \* ListPage: the memoised displayed list
  listMovieIds,             \* ListPage: the memoised movieIds
  galleryMovies,            \* GalleryPage: movies
  gallerySelectedGenres,    \* GalleryPage: selectedGenres
  minimumRating,            \* GalleryPage: in tenths, as vote_average
  filteredMovies,           \* GalleryPage: the memoised displayed list
  galleryMovieIds,          \* GalleryPage: the memoised movieIds
  galleryGenres,            \* GalleryPage: genres
  galleryIsLoading,         \* GalleryPage: isLoading
  galleryPending,           \* GalleryPage: the Promise.all of the mount effect
                            \* has not settled yet
  inflight,                 \* ListPage: fetchMovies calls awaiting their response
  movieId,                  \* DetailPage: route parameter, <<>> or <<id>>
  movie,                    \* DetailPage: <<>> or <<id of the loaded details>>
  detailIsLoading,
  error,                    \* DetailPage: <<>> or <<message>>
  movieIds,                 \* DetailPage: the stepper's sequence
  locState,                 \* location.state: <<>> or <<movieIds>>
  detailInflight,           \* DetailPage: fetchDetails calls awaiting their response
  captured                  \* history: the sequence attached by the last card click

listVars ==
  <<movies, query, isLoading, genres, genresPending, selectedGenres, sortOption,
    currentPage, totalPages, filteredAndSortedMovies, listMovieIds, inflight>>

detailVars ==
  <<movieId, movie, detailIsLoading, error, movieIds, locState, detailInflight, backEntry>>

galleryVars ==
  <<galleryMovies, gallerySelectedGenres, minimumRating, filteredMovies,
    galleryMovieIds, galleryGenres, galleryIsLoading, galleryPending>>

vars == <<view, store, storage, sortEngine, captured, listVars, detailVars, galleryVars>>

FetchFailedMessage == <<"Failed to fetch movie details.">>

MissingIdMessage == <<"Movie identifier is missing.">>

(***************************************************************************)
(* ListPage: fetching                                                      *)
(***************************************************************************)
\* fetchMovies testing the length of the untrimmed text
FetchRequest_UntrimmedLength(page, searchTerm) ==
  LET trimmedQuery == Trim(searchTerm)
  IN IF Len(searchTerm) > 1
     THEN [endpoint |-> "search", query |-> trimmedQuery, page |-> page]
     ELSE [endpoint |-> "popular", query |-> <<>>, page |-> page]

\* the request fetchMovies(page, searchTerm) sends
FetchRequest(page, searchTerm) ==
  LET trimmedQuery == Trim(searchTerm)
  IN IF Len(trimmedQuery) > 1
     THEN [endpoint |-> "search", query |-> trimmedQuery, page |-> page]
     ELSE [endpoint |-> "popular", query |-> <<>>, page |-> page]

ServerResults(req) ==
  IF req.endpoint = "search" THEN SearchResults(req.query, req.page)
  ELSE PopularResults(req.page)

ServerTotalPages(req) ==
  IF req.endpoint = "search" THEN SearchPages ELSE PopularPages

\* the bodies the service may answer req with: results and total_pages may
\* each be missing, and total_pages may be 0
ServerResponses(req) ==
  { [results |-> r, total_pages |-> t] :
      r \in {<<>>, <<ServerResults(req)>>},
      t \in {<<>>, <<0>>, <<ServerTotalPages(req)>>} }

Max(a, b) == IF a >= b THEN a ELSE b

\* data.results ?? []
ResultsOrEmpty(data) == IF data.results = <<>> THEN <<>> ELSE data.results[1]

\* data.total_pages ?? 1, without Math.max
TotalPagesOf_NoClamp(data) ==
  IF data.total_pages = <<>> THEN 1 ELSE data.total_pages[1]

\* Math.max(1, data.total_pages ?? 1)
TotalPagesOf(data) ==
  Max(1, IF data.total_pages = <<>> THEN 1 ELSE data.total_pages[1])

RemoveAt(s, i) == SubSeq(s, 1, i - 1) \o SubSeq(s, i + 1, Len(s))

\* a memo that, when only the sort option changed, sorts the list it holds
MemoValue_ResortsDisplayed(ms, sel, opt) ==
  IF <<ms, sel>> = <<movies, selectedGenres>>
  THEN ArraySort(sortEngine, filteredAndSortedMovies, opt)
  ELSE ComputeFilteredAndSorted(sortEngine, ms, sel, opt)

\* the value of the filteredAndSortedMovies memo in this session's engine
MemoValue(ms, sel, opt) == ComputeFilteredAndSorted(sortEngine, ms, sel, opt)

\* the displayed-list memo with sortOption left out of its dependencies
Rerender_StaleSort(ms, sel, opt) ==
  /\ IF <<ms, sel>> # <<movies, selectedGenres>>
     THEN filteredAndSortedMovies' = MemoValue(ms, sel, opt)
     ELSE filteredAndSortedMovies' = filteredAndSortedMovies
  /\ listMovieIds' = IdsOf(filteredAndSortedMovies')

\* the two memos, recomputed on a render in which their dependencies changed
Rerender(ms, sel, opt) ==
  /\ IF <<ms, sel, opt>> # <<movies, selectedGenres, sortOption>>
     THEN filteredAndSortedMovies' = MemoValue(ms, sel, opt)
     ELSE filteredAndSortedMovies' = filteredAndSortedMovies
  /\ listMovieIds' = IdsOf(filteredAndSortedMovies')

\* the effect on [currentPage, query]: fetchMovies up to its await
FetchEffect(page, searchTerm) ==
  IF <<page, searchTerm>> # <<currentPage, query>>
  THEN /\ Len(inflight) < MaxInFlight
       /\ isLoading' = TRUE
       /\ inflight' = Append(inflight, FetchRequest(page, searchTerm))
  ELSE UNCHANGED <<isLoading, inflight>>

\* the state of a ListPage that has just been mounted
ListMounted ==
  /\ movies' = <<>>
  /\ query' = <<>>
  /\ isLoading' = TRUE
  /\ genres' = <<>>
  /\ genresPending' = TRUE
  /\ selectedGenres' = <<>>
  /\ sortOption' = "popularity.desc"
  /\ currentPage' = 1
  /\ totalPages' = 1
  /\ filteredAndSortedMovies' = <<>>
  /\ listMovieIds' = <<>>
  /\ inflight' = <<FetchRequest(1, <<>>)>>

\* no ListPage is mounted
ListUnmounted ==
  /\ movies' = <<>>
  /\ query' = <<>>
  /\ isLoading' = FALSE
  /\ genres' = <<>>
  /\ genresPending' = FALSE
  /\ selectedGenres' = <<>>
  /\ sortOption' = "popularity.desc"
  /\ currentPage' = 1
  /\ totalPages' = 1
  /\ filteredAndSortedMovies' = <<>>
  /\ listMovieIds' = <<>>
  /\ inflight' = <<>>

\* the state of a GalleryPage that has just been mounted
GalleryMounted ==
  /\ galleryMovies' = <<>>
  /\ gallerySelectedGenres' = <<>>
  /\ minimumRating' = 0
  /\ filteredMovies' = <<>>
  /\ galleryMovieIds' = <<>>
  /\ galleryGenres' = <<>>
  /\ galleryIsLoading' = TRUE
  /\ galleryPending' = TRUE

\* no GalleryPage is mounted
GalleryUnmounted ==
  /\ galleryMovies' = <<>>
  /\ gallerySelectedGenres' = <<>>
  /\ minimumRating' = 0
  /\ filteredMovies' = <<>>
  /\ galleryMovieIds' = <<>>
  /\ galleryGenres' = <<>>
  /\ galleryIsLoading' = FALSE
  /\ galleryPending' = FALSE

\* no DetailPage is mounted
DetailUnmounted ==
  /\ movieId' = <<>>
  /\ movie' = <<>>
  /\ detailIsLoading' = FALSE
  /\ error' = <<>>
  /\ movieIds' = <<>>
  /\ locState' = <<>>
  /\ detailInflight' = <<>>
  /\ backEntry' = <<>>

Init ==
  /\ view = "list"
  /\ store = <<>>
  /\ storage = "ok"
  /\ sortEngine \in SortEngines
  /\ captured = <<>>
  /\ movies = <<>>
  /\ query = <<>>
  /\ isLoading = TRUE
  /\ genres = <<>>
  /\ genresPending = TRUE
  /\ selectedGenres = <<>>
  /\ sortOption = "popularity.desc"
  /\ currentPage = 1
  /\ totalPages = 1
  /\ filteredAndSortedMovies = <<>>
  /\ listMovieIds = <<>>
  /\ inflight = <<FetchRequest(1, <<>>)>>
  /\ movieId = <<>>
  /\ movie = <<>>
  /\ detailIsLoading = FALSE
  /\ error = <<>>
  /\ movieIds = <<>>
  /\ locState = <<>>
  /\ detailInflight = <<>>
  /\ backEntry = <<>>
  /\ galleryMovies = <<>>
  /\ gallerySelectedGenres = <<>>
  /\ minimumRating = 0
  /\ filteredMovies = <<>>
  /\ galleryMovieIds = <<>>
  /\ galleryGenres = <<>>
  /\ galleryIsLoading = FALSE
  /\ galleryPending = FALSE

(***************************************************************************)
(* ListPage: handlers                                                      *)
(***************************************************************************)
\* getGenres() settles
GenresFetched(ok) ==
  /\ view = "list"
  /\ genresPending
  /\ genresPending' = FALSE
  /\ genres' = IF ok THEN GenreCatalog ELSE <<>>
  /\ UNCHANGED <<view, store, captured, detailVars, movies, query, isLoading,
                 selectedGenres, sortOption, currentPage, totalPages,
                 filteredAndSortedMovies, listMovieIds, inflight>>
  /\ UNCHANGED galleryVars
  /\ UNCHANGED storage
  /\ UNCHANGED sortEngine

\* fetchMovies after its await: the i-th pending call gets the body data
FetchSucceeds(i, data) ==
  /\ view = "list"
  /\ i \in 1..Len(inflight)
  /\ data \in ServerResponses(inflight[i])
  /\ movies' = ResultsOrEmpty(data)
  /\ totalPages' = TotalPagesOf(data)
  /\ isLoading' = FALSE
  /\ inflight' = RemoveAt(inflight, i)
  /\ Rerender(movies', selectedGenres, sortOption)
  /\ UNCHANGED <<view, store, captured, detailVars, query, genres, genresPending,
                 selectedGenres, sortOption, currentPage>>
  /\ UNCHANGED galleryVars
  /\ UNCHANGED storage
  /\ UNCHANGED sortEngine

\* the catch block without setMovies([])
FetchFails_KeepsItems(i) ==
  /\ view = "list"
  /\ i \in 1..Len(inflight)
  /\ totalPages' = 1
  /\ isLoading' = FALSE
  /\ inflight' = RemoveAt(inflight, i)
  /\ UNCHANGED <<view, store, captured, detailVars, movies, query, genres,
                 genresPending, selectedGenres, sortOption, currentPage,
                 filteredAndSortedMovies, listMovieIds>>
  /\ UNCHANGED galleryVars
  /\ UNCHANGED storage
  /\ UNCHANGED sortEngine

\* fetchMovies after its await: the i-th pending call is rejected
FetchFails(i) ==
  /\ view = "list"
  /\ i \in 1..Len(inflight)
  /\ movies' = <<>>
  /\ totalPages' = 1
  /\ isLoading' = FALSE
  /\ inflight' = RemoveAt(inflight, i)
  /\ Rerender(movies', selectedGenres, sortOption)
  /\ UNCHANGED <<view, store, captured, detailVars, query, genres, genresPending,
                 selectedGenres, sortOption, currentPage>>
  /\ UNCHANGED galleryVars
  /\ UNCHANGED storage
  /\ UNCHANGED sortEngine

\* handleSearch without setCurrentPage(1)
handleSearch_KeepsPage(nextQuery) ==
  /\ view = "list"
  /\ nextQuery # query
  /\ query' = nextQuery
  /\ currentPage' = currentPage
  /\ FetchEffect(currentPage', query')
  /\ UNCHANGED <<view, store, captured, detailVars, movies, genres, genresPending,
                 selectedGenres, sortOption, totalPages, filteredAndSortedMovies,
                 listMovieIds>>
  /\ UNCHANGED galleryVars
  /\ UNCHANGED storage
  /\ UNCHANGED sortEngine

handleSearch(nextQuery) ==
  /\ view = "list"
  /\ nextQuery # query
  /\ query' = nextQuery
  /\ currentPage' = 1
  /\ FetchEffect(currentPage', query')
  /\ UNCHANGED <<view, store, captured, detailVars, movies, genres, genresPending,
                 selectedGenres, sortOption, totalPages, filteredAndSortedMovies,
                 listMovieIds>>
  /\ UNCHANGED galleryVars
  /\ UNCHANGED storage
  /\ UNCHANGED sortEngine

\* prev.includes(genreId) ? prev.filter(id => id !== genreId) : [...prev, genreId]
ToggleGenre(prev, genreId) ==
  IF \E i \in 1..Len(prev) : prev[i] = genreId
  THEN SelectSeq(prev, LAMBDA id : id # genreId)
  ELSE Append(prev, genreId)

handleGenreClick(genreId) ==
  /\ view = "list"
  /\ \E i \in 1..Len(genres) : genres[i] = genreId
  /\ selectedGenres' = ToggleGenre(selectedGenres, genreId)
  /\ Rerender(movies, selectedGenres', sortOption)
  /\ UNCHANGED <<view, store, captured, detailVars, movies, query, isLoading, genres,
                 genresPending, sortOption, currentPage, totalPages, inflight>>
  /\ UNCHANGED galleryVars
  /\ UNCHANGED storage
  /\ UNCHANGED sortEngine

clearFilters ==
  /\ view = "list"
  /\ selectedGenres' = <<>>
  /\ Rerender(movies, selectedGenres', sortOption)
  /\ UNCHANGED <<view, store, captured, detailVars, movies, query, isLoading, genres,
                 genresPending, sortOption, currentPage, totalPages, inflight>>
  /\ UNCHANGED galleryVars
  /\ UNCHANGED storage
  /\ UNCHANGED sortEngine

\* a sort dropdown that also goes back to page 1
setSortOption_ResetsPage(opt) ==
  /\ view = "list"
  /\ sortOption' = opt
  /\ currentPage' = 1
  /\ FetchEffect(currentPage', query)
  /\ Rerender(movies, selectedGenres, sortOption')
  /\ UNCHANGED <<view, store, captured, detailVars, movies, query, genres,
                 genresPending, selectedGenres, totalPages>>
  /\ UNCHANGED galleryVars
  /\ UNCHANGED storage
  /\ UNCHANGED sortEngine

\* onChange of the sort dropdown
setSortOption(opt) ==
  /\ view = "list"
  /\ sortOption' = opt
  /\ Rerender(movies, selectedGenres, sortOption')
  /\ UNCHANGED <<view, store, captured, detailVars, movies, query, isLoading, genres,
                 genresPending, selectedGenres, currentPage, totalPages, inflight>>
  /\ UNCHANGED galleryVars
  /\ UNCHANGED storage
  /\ UNCHANGED sortEngine

handleGoHome ==
  /\ view = "list"
  /\ query' = <<>>
  /\ selectedGenres' = <<>>
  /\ sortOption' = "popularity.desc"
  /\ currentPage' = 1
  /\ FetchEffect(currentPage', query')
  /\ Rerender(movies, selectedGenres', sortOption')
  /\ UNCHANGED <<view, store, captured, detailVars, movies, genres, genresPending,
                 totalPages>>
  /\ UNCHANGED galleryVars
  /\ UNCHANGED storage
  /\ UNCHANGED sortEngine

\* goToPreviousPage clamping at 0 instead of 1
goToPreviousPage_ClampsAtZero ==
  /\ view = "list"
  /\ currentPage' = Max(0, currentPage - 1)
  /\ FetchEffect(currentPage', query)
  /\ UNCHANGED <<view, store, captured, detailVars, movies, query, genres,
                 genresPending, selectedGenres, sortOption, totalPages,
                 filteredAndSortedMovies, listMovieIds>>
  /\ UNCHANGED galleryVars
  /\ UNCHANGED storage
  /\ UNCHANGED sortEngine

goToPreviousPage ==
  /\ view = "list"
  /\ currentPage' = Max(1, currentPage - 1)
  /\ FetchEffect(currentPage', query)
  /\ UNCHANGED <<view, store, captured, detailVars, movies, query, genres,
                 genresPending, selectedGenres, sortOption, totalPages,
                 filteredAndSortedMovies, listMovieIds>>
  /\ UNCHANGED galleryVars
  /\ UNCHANGED storage
  /\ UNCHANGED sortEngine

\* goToNextPage comparing with <= instead of <
goToNextPage_OffByOne ==
  /\ view = "list"
  /\ currentPage' = IF currentPage <= totalPages THEN currentPage + 1 ELSE currentPage
  /\ FetchEffect(currentPage', query)
  /\ UNCHANGED <<view, store, captured, detailVars, movies, query, genres,
                 genresPending, selectedGenres, sortOption, totalPages,
                 filteredAndSortedMovies, listMovieIds>>
  /\ UNCHANGED galleryVars
  /\ UNCHANGED storage
  /\ UNCHANGED sortEngine

goToNextPage ==
  /\ view = "list"
  /\ currentPage' = IF currentPage < totalPages THEN currentPage + 1 ELSE currentPage
  /\ FetchEffect(currentPage', query)
  /\ UNCHANGED <<view, store, captured, detailVars, movies, query, genres,
                 genresPending, selectedGenres, sortOption, totalPages,
                 filteredAndSortedMovies, listMovieIds>>
  /\ UNCHANGED galleryVars
  /\ UNCHANGED storage
  /\ UNCHANGED sortEngine

(***************************************************************************)
(* DetailPage                                                              *)
(***************************************************************************)
\* the initialiser of the movieIds state keeping a parsed value that is not
\* an array as a one-element sequence
ReadStoredIds_WrapsScalar(st) ==
  IF storage = "denied" THEN <<>>
  ELSE IF st = <<>> \/ st[1] = <<>> THEN <<>>
  ELSE LET parsed == JSONParse(st[1])
       IN IF parsed.threw THEN <<>>
          ELSE IF parsed.isArray THEN parsed.items ELSE <<0>>

\* the initialiser of the movieIds state: the sequence read from the store
ReadStoredIds(st) ==
  IF storage = "denied" THEN <<>>
  ELSE IF st = <<>> \/ st[1] = <<>> THEN <<>>
  ELSE LET parsed == JSONParse(st[1])
       IN IF parsed.threw THEN <<>>
          ELSE IF parsed.isArray THEN parsed.items ELSE <<>>

\* the location.state effect left out
StateEffect_IgnoresState(state, ids) == ids

\* the effect on [location.state]
StateEffect(state, ids) ==
  IF state # <<>> /\ Len(state[1]) > 0 THEN state[1] ELSE ids

\* a setItem that leaves the key empty when it throws
SetItem_LosesContent(st, text) == IF storage = "ok" THEN <<text>> ELSE <<>>

\* sessionStorage.setItem inside the try block: the content of the store after it
SetItem(st, text) == IF storage = "ok" THEN <<text>> ELSE st

\* the write effect without its length test
ShouldWrite_Always(ids) == TRUE

\* the test of the write effect: if (movieIds.length > 0)
ShouldWrite(ids) == Len(ids) > 0

\* the storage write effect left out
WriteEffect_NeverWrites(st, ids) == st

\* the effect on [movieIds]: the content of the store after it
WriteEffect(st, ids) ==
  IF ShouldWrite(ids) THEN SetItem(st, JSONStringify(ids)) ELSE st

\* the mount effects with the !movieId branch of the fetch effect left out
MountDetailAt_AlwaysFetches(route, state) ==
  LET initial == ReadStoredIds(store)
      resolved == StateEffect(state, initial)
  IN /\ view' = "detail"
     /\ movieId' = route
     /\ locState' = state
     /\ movieIds' = resolved
     /\ store' = WriteEffect(WriteEffect(store, initial), resolved)
     /\ movie' = <<>>
     /\ backEntry' = <<>>
     /\ detailIsLoading' = TRUE
     /\ error' = <<>>
     /\ detailInflight' = <<0>>

\* a DetailPage is mounted with useParams().movieId = route, <<>> when the
\* parameter is undefined, and location.state = state
MountDetailAt(route, state) ==
  LET initial == ReadStoredIds(store)
      resolved == StateEffect(state, initial)
  IN /\ view' = "detail"
     /\ movieId' = route
     /\ locState' = state
     /\ movieIds' = resolved
     /\ store' = WriteEffect(WriteEffect(store, initial), resolved)
     /\ movie' = <<>>
     /\ backEntry' = <<>>
     /\ IF route = <<>>
        THEN /\ detailIsLoading' = FALSE
             /\ error' = MissingIdMessage
             /\ detailInflight' = <<>>
        ELSE /\ detailIsLoading' = TRUE
             /\ error' = <<>>
             /\ detailInflight' = route

\* a DetailPage is mounted on /movie/id with location.state = state
MountDetail(id, state) == MountDetailAt(<<id>>, state)

\* a card click that navigates without location state
handleCardClick_AttachesNothing(m) ==
  /\ view = "list"
  /\ ~isLoading
  /\ \E i \in 1..Len(filteredAndSortedMovies) : filteredAndSortedMovies[i] = m
  /\ captured' = listMovieIds
  /\ MountDetail(m, <<>>)
  /\ ListUnmounted
  /\ UNCHANGED galleryVars
  /\ UNCHANGED storage
  /\ UNCHANGED sortEngine

\* a click on a card of the grid, which is rendered when not loading
handleCardClick(m) ==
  /\ view = "list"
  /\ ~isLoading
  /\ \E i \in 1..Len(filteredAndSortedMovies) : filteredAndSortedMovies[i] = m
  /\ captured' = listMovieIds
  /\ MountDetail(m, <<listMovieIds>>)
  /\ ListUnmounted
  /\ UNCHANGED galleryVars
  /\ UNCHANGED storage
  /\ UNCHANGED sortEngine

\* the address /movie/id typed in: a fresh page load with no location.state
DirectLink(id) ==
  /\ MountDetail(id, <<>>)
  /\ ListUnmounted
  /\ GalleryUnmounted
  /\ UNCHANGED captured
  /\ UNCHANGED storage
  /\ UNCHANGED sortEngine

\* a DetailPage rendered by a route that binds no movieId parameter
OpenDetailWithoutId ==
  /\ MountDetailAt(<<>>, <<>>)
  /\ ListUnmounted
  /\ GalleryUnmounted
  /\ UNCHANGED <<captured, storage, sortEngine>>

\* sessionStorage starts or stops throwing
StorageSwitch(mode) ==
  /\ mode # storage
  /\ storage' = mode
  /\ UNCHANGED <<view, store, sortEngine, captured, listVars, detailVars, galleryVars>>

\* the stored text is replaced from outside the application
StoreCorrupted(text) ==
  /\ store # <<text>>
  /\ store' = <<text>>
  /\ UNCHANGED <<view, storage, sortEngine, captured, listVars, detailVars, galleryVars>>

\* navigate("/") or the browser's back button on the first detail entry
BackToList ==
  /\ view = "detail"
  /\ view' = "list"
  /\ ListMounted
  /\ DetailUnmounted
  /\ UNCHANGED <<store, captured>>
  /\ UNCHANGED galleryVars
  /\ UNCHANGED storage
  /\ UNCHANGED sortEngine

\* fetchDetails without setError(null)
DetailFetchEffect_KeepsError(id) ==
  IF <<id>> # movieId
  THEN /\ Len(detailInflight) < MaxInFlight
       /\ detailIsLoading' = TRUE
       /\ detailInflight' = Append(detailInflight, id)
       /\ UNCHANGED error
  ELSE UNCHANGED <<detailIsLoading, error, detailInflight>>

\* the effect on [movieId]: fetchDetails up to its await
DetailFetchEffect(id) ==
  IF <<id>> # movieId
  THEN /\ Len(detailInflight) < MaxInFlight
       /\ detailIsLoading' = TRUE
       /\ error' = <<>>
       /\ detailInflight' = Append(detailInflight, id)
  ELSE UNCHANGED <<detailIsLoading, error, detailInflight>>

DetailFetchSucceeds(i) ==
  /\ view = "detail"
  /\ i \in 1..Len(detailInflight)
  /\ movie' = <<detailInflight[i]>>
  /\ detailIsLoading' = FALSE
  /\ detailInflight' = RemoveAt(detailInflight, i)
  /\ UNCHANGED <<view, store, captured, listVars, movieId, error, movieIds, locState,
                 backEntry>>
  /\ UNCHANGED galleryVars
  /\ UNCHANGED storage
  /\ UNCHANGED sortEngine

DetailFetchFails(i) ==
  /\ view = "detail"
  /\ i \in 1..Len(detailInflight)
  /\ error' = FetchFailedMessage
  /\ detailIsLoading' = FALSE
  /\ detailInflight' = RemoveAt(detailInflight, i)
  /\ UNCHANGED <<view, store, captured, listVars, movieId, movie, movieIds, locState,
                 backEntry>>
  /\ UNCHANGED galleryVars
  /\ UNCHANGED storage
  /\ UNCHANGED sortEngine

\* the stepper buttons are rendered once the details are shown
StepperRendered == view = "detail" /\ ~detailIsLoading /\ error = <<>> /\ movie # <<>>

canNavigateBetweenMovies(ids) == Len(ids) > 0

\* handleNavigation without the currentIndex === -1 return
StepTarget_NoIndexCheck(id, ids, direction) ==
  IF id = <<>> \/ ~canNavigateBetweenMovies(ids) THEN <<>>
  ELSE <<At(ids, NextIndex(direction, IndexOf(ids, id[1]), Len(ids)))>>

\* the id handleNavigation navigates to, <<>> when it returns early
StepTarget(id, ids, direction) ==
  IF id = <<>> \/ ~canNavigateBetweenMovies(ids) THEN <<>>
  ELSE LET currentIndex == IndexOf(ids, id[1])
       IN IF currentIndex = -1 THEN <<>>
          ELSE <<At(ids, NextIndex(direction, currentIndex, Len(ids)))>>

\* the route changes to /movie/id with location.state = state in the mounted DetailPage
RouteChange(id, state) ==
  /\ movieId' = <<id>>
  /\ locState' = state
  /\ movieIds' = StateEffect(state, movieIds)
  /\ store' = IF movieIds' # movieIds THEN WriteEffect(store, movieIds') ELSE store
  /\ DetailFetchEffect(id)

\* handleNavigation handing on the sequence without the id it leaves
handleNavigation_DropsVisited(direction) ==
  /\ StepperRendered
  /\ LET target == StepTarget(movieId, movieIds, direction)
     IN IF target = <<>> THEN UNCHANGED vars
        ELSE /\ RouteChange(target[1], <<SelectSeq(movieIds, LAMBDA id : <<id>> # movieId)>>)
             /\ backEntry' = <<[id |-> movieId[1], state |-> locState]>>
             /\ UNCHANGED <<view, captured, listVars, movie>>
  /\ UNCHANGED galleryVars
  /\ UNCHANGED storage
  /\ UNCHANGED sortEngine

handleNavigation(direction) ==
  /\ StepperRendered
  /\ LET target == StepTarget(movieId, movieIds, direction)
     IN IF target = <<>> THEN UNCHANGED vars
        ELSE /\ RouteChange(target[1], <<movieIds>>)
             /\ backEntry' = <<[id |-> movieId[1], state |-> locState]>>
             /\ UNCHANGED <<view, captured, listVars, movie>>
  /\ UNCHANGED galleryVars
  /\ UNCHANGED storage
  /\ UNCHANGED sortEngine

\* the browser's back button on a detail entry pushed by the stepper
BrowserBack ==
  /\ view = "detail"
  /\ backEntry # <<>>
  /\ RouteChange(backEntry[1].id, backEntry[1].state)
  /\ backEntry' = <<>>
  /\ UNCHANGED <<view, captured, listVars, movie>>
  /\ UNCHANGED galleryVars
  /\ UNCHANGED storage
  /\ UNCHANGED sortEngine

(***************************************************************************)
(* GalleryPage: filteredMovies and the handlers of its filters             *)
(***************************************************************************)
\* the positions of the rating slider taken in SpecDerive, in tenths
RatingChoices == {0, 65, 70, 100}

\* the filteredMovies predicate with || for && between its two parts
MatchesFilters_EitherPart(m, sel, minRating) ==
  \/ Len(sel) = 0 \/ \A i \in 1..Len(sel) : sel[i] \in GenreIdsOf(m)
  \/ VoteAverage(m) >= minRating

\* matchesGenres && matchesRating
MatchesFilters(m, sel, minRating) ==
  /\ Len(sel) = 0 \/ \A i \in 1..Len(sel) : sel[i] \in GenreIdsOf(m)
  /\ VoteAverage(m) >= minRating

\* the body of the filteredMovies memo
ComputeFilteredMovies(ms, sel, minRating) ==
  SelectSeq(ms, LAMBDA m : MatchesFilters(m, sel, minRating))

\* the two memos of GalleryPage
GalleryRerender(ms, sel, minRating) ==
  /\ filteredMovies' = ComputeFilteredMovies(ms, sel, minRating)
  /\ galleryMovieIds' = IdsOf(filteredMovies')

\* a click on a genre chip, one chip being rendered per genre
handleToggleGenre(genreId) ==
  /\ view = "gallery"
  /\ \E i \in 1..Len(galleryGenres) : galleryGenres[i] = genreId
  /\ gallerySelectedGenres' = ToggleGenre(gallerySelectedGenres, genreId)
  /\ GalleryRerender(galleryMovies, gallerySelectedGenres', minimumRating)
  /\ UNCHANGED <<view, store, captured, listVars, detailVars, galleryMovies,
                 minimumRating, galleryGenres, galleryIsLoading, galleryPending>>
  /\ UNCHANGED storage
  /\ UNCHANGED sortEngine

\* onChange of the rating slider
setMinimumRating(rating) ==
  /\ view = "gallery"
  /\ minimumRating' = rating
  /\ GalleryRerender(galleryMovies, gallerySelectedGenres, minimumRating')
  /\ UNCHANGED <<view, store, captured, listVars, detailVars, galleryMovies,
                 gallerySelectedGenres, galleryGenres, galleryIsLoading,
                 galleryPending>>
  /\ UNCHANGED storage
  /\ UNCHANGED sortEngine

handleClearFilters ==
  /\ view = "gallery"
  /\ gallerySelectedGenres' = <<>>
  /\ minimumRating' = 0
  /\ GalleryRerender(galleryMovies, gallerySelectedGenres', minimumRating')
  /\ UNCHANGED <<view, store, captured, listVars, detailVars, galleryMovies,
                 galleryGenres, galleryIsLoading, galleryPending>>
  /\ UNCHANGED storage
  /\ UNCHANGED sortEngine

\* the Gallery button of the list view: navigate("/gallery")
OpenGallery ==
  /\ view = "list"
  /\ view' = "gallery"
  /\ ListUnmounted
  /\ GalleryMounted
  /\ UNCHANGED <<store, captured, detailVars>>
  /\ UNCHANGED storage
  /\ UNCHANGED sortEngine

\* Promise.all([getPopularMovies(), getGenres()]) is fulfilled: setMovies is
\* handed the body of the popular response, which is an object and not its
\* results array, so the filteredMovies memo of the next render calls
\* movies.filter on it and throws; no error boundary catches the TypeError
GalleryFetchSucceeds(data) ==
  /\ view = "gallery"
  /\ galleryPending
  /\ data \in ServerResponses(FetchRequest(1, <<>>))
  /\ view' = "crashed"
  /\ GalleryUnmounted
  /\ UNCHANGED <<store, captured, listVars, detailVars>>
  /\ UNCHANGED storage
  /\ UNCHANGED sortEngine

\* Promise.all is rejected: the .then callback does not run and there is no
\* .catch, so nothing is set
GalleryFetchFails ==
  /\ view = "gallery"
  /\ galleryPending
  /\ galleryPending' = FALSE
  /\ UNCHANGED <<view, store, captured, listVars, detailVars, galleryMovies,
                 gallerySelectedGenres, minimumRating, filteredMovies,
                 galleryMovieIds, galleryGenres, galleryIsLoading>>
  /\ UNCHANGED storage
  /\ UNCHANGED sortEngine

\* the "< Back to Search" button: navigate("/")
GalleryBackToSearch ==
  /\ view = "gallery"
  /\ view' = "list"
  /\ ListMounted
  /\ GalleryUnmounted
  /\ UNCHANGED <<store, captured, detailVars>>
  /\ UNCHANGED storage
  /\ UNCHANGED sortEngine

\* GalleryPage.handleCardClick: a click on a card of the grid, which is
\* rendered when not loading
GalleryHandleCardClick(m) ==
  /\ view = "gallery"
  /\ ~galleryIsLoading
  /\ \E i \in 1..Len(filteredMovies) : filteredMovies[i] = m
  /\ captured' = galleryMovieIds
  /\ MountDetail(m, <<galleryMovieIds>>)
  /\ GalleryUnmounted
  /\ UNCHANGED listVars
  /\ UNCHANGED storage
  /\ UNCHANGED sortEngine

(***************************************************************************)
(* Specification                                                           *)
(***************************************************************************)
Next ==
  \/ \E ok \in BOOLEAN : GenresFetched(ok)
  \/ \E i \in 1..Len(inflight) : \E data \in ServerResponses(inflight[i]) : FetchSucceeds(i, data)
  \/ \E i \in 1..MaxInFlight : FetchFails(i)
  \/ \E q \in Queries : handleSearch(q)
  \/ \E g \in {GenreCatalog[i] : i \in 1..Len(GenreCatalog)} : handleGenreClick(g)
  \/ clearFilters
  \/ \E opt \in SortChoices : setSortOption(opt)
  \/ handleGoHome
  \/ goToPreviousPage
  \/ goToNextPage
  \/ \E m \in MovieIdSet : handleCardClick(m)
  \/ \E id \in MovieIdSet : DirectLink(id)
  \/ BackToList
  \/ \E i \in 1..MaxInFlight : DetailFetchSucceeds(i)
  \/ \E i \in 1..MaxInFlight : DetailFetchFails(i)
  \/ \E d \in Directions : handleNavigation(d)
  \/ BrowserBack
  \/ OpenGallery
  \/ \E data \in ServerResponses(FetchRequest(1, <<>>)) : GalleryFetchSucceeds(data)
  \/ GalleryFetchFails
  \/ GalleryBackToSearch
  \/ \E rating \in RatingChoices : setMinimumRating(rating)
  \/ handleClearFilters

Spec == Init /\ [][Next]_vars

\* the list view alone, with the search box taking the values of SearchTexts
NextSearch ==
  \/ \E i \in 1..Len(inflight) : \E data \in ServerResponses(inflight[i]) : FetchSucceeds(i, data)
  \/ \E i \in 1..MaxInFlight : FetchFails(i)
  \/ \E q \in SearchTexts : handleSearch(q)
  \/ handleGoHome
  \/ goToPreviousPage
  \/ goToNextPage

SpecSearch == Init /\ [][NextSearch]_vars

StorageModes == {"ok", "full", "denied"}

\* texts the store may be given from outside: one that does not parse, two
\* that parse to something that is not an array, the empty string, and the
\* empty array
CorruptTexts ==
  {<<"[", "1">>, <<"{", "}">>, <<"7">>, <<>>, <<"[", "]">>}

\* the detail view behind the first page of the list view, with a storage
\* that may throw and a store that may be overwritten from outside
NextDetail ==
  \/ \E ok \in BOOLEAN : GenresFetched(ok)
  \/ \E i \in 1..Len(inflight) : \E data \in ServerResponses(inflight[i]) : FetchSucceeds(i, data)
  \/ \E g \in {GenreCatalog[i] : i \in 1..Len(GenreCatalog)} : handleGenreClick(g)
  \/ \E m \in MovieIdSet : handleCardClick(m)
  \/ \E id \in MovieIdSet : DirectLink(id)
  \/ OpenDetailWithoutId
  \/ BackToList
  \/ \E i \in 1..MaxInFlight : DetailFetchSucceeds(i)
  \/ \E i \in 1..MaxInFlight : DetailFetchFails(i)
  \/ \E d \in Directions : handleNavigation(d)
  \/ BrowserBack
  \/ \E mode \in StorageModes : StorageSwitch(mode)
  \/ \E text \in CorruptTexts : StoreCorrupted(text)

SpecDetail == Init /\ [][NextDetail]_vars

\* the longest raw list of SpecDerive
MaxRawLen == 5

\* the raw lists of SpecDerive: items of DeriveItems, each at most once
RawLists ==
  {R \in UNION {[1..n -> DeriveItems] : n \in 0..MaxRawLen} :
     \A i, j \in 1..Len(R) : R[i] = R[j] => i = j}

\* a view whose movies are the raw list R, with no filter set: the list view
\* after its first response, or the gallery view holding R
InitDerive ==
  /\ view \in {"list", "gallery"}
  /\ store = <<>>
  /\ storage = "ok"
  /\ sortEngine \in SortEngines
  /\ captured = <<>>
  /\ movieId = <<>>
  /\ movie = <<>>
  /\ detailIsLoading = FALSE
  /\ error = <<>>
  /\ movieIds = <<>>
  /\ locState = <<>>
  /\ detailInflight = <<>>
  /\ backEntry = <<>>
  /\ query = <<>>
  /\ isLoading = FALSE
  /\ genresPending = FALSE
  /\ selectedGenres = <<>>
  /\ sortOption = "popularity.desc"
  /\ currentPage = 1
  /\ totalPages = 1
  /\ inflight = <<>>
  /\ gallerySelectedGenres = <<>>
  /\ minimumRating = 0
  /\ \E R \in RawLists :
       IF view = "list"
       THEN /\ movies = R
            /\ genres = DeriveGenreCatalog
            /\ filteredAndSortedMovies =
                 ComputeFilteredAndSorted(sortEngine, R, <<>>, "popularity.desc")
            /\ galleryMovies = <<>>
            /\ filteredMovies = <<>>
            /\ galleryGenres = <<>>
       ELSE /\ movies = <<>>
            /\ genres = <<>>
            /\ filteredAndSortedMovies = <<>>
            /\ galleryMovies = R
            /\ filteredMovies = ComputeFilteredMovies(R, <<>>, 0)
            /\ galleryGenres = DeriveGenreCatalog
  /\ listMovieIds = IdsOf(filteredAndSortedMovies)
  /\ galleryMovieIds = IdsOf(filteredMovies)
  /\ galleryIsLoading = FALSE
  /\ galleryPending = FALSE

\* the filters and the sort option of the two views
NextDerive ==
  \/ \E g \in {DeriveGenreCatalog[i] : i \in 1..Len(DeriveGenreCatalog)} : handleGenreClick(g)
  \/ clearFilters
  \/ \E opt \in SortOptions : setSortOption(opt)
  \/ \E g \in {DeriveGenreCatalog[i] : i \in 1..Len(DeriveGenreCatalog)} : handleToggleGenre(g)
  \/ \E rating \in RatingChoices : setMinimumRating(rating)
  \/ handleClearFilters
  \/ \E m \in DeriveItems : handleCardClick(m)
  \/ \E m \in DeriveItems : GalleryHandleCardClick(m)

SpecDerive == InitDerive /\ [][NextDerive]_vars

(***************************************************************************)
(* Claims                                                                  *)
(***************************************************************************)
Elements(s) == {s[i] : i \in 1..Len(s)}

\* what a completed fetchMovies call for req can leave in <<movies, totalPages>>
FetchOutcomes(req) ==
  {<<ResultsOrEmpty(d), TotalPagesOf(d)>> : d \in ServerResponses(req)} \cup {<<<<>>, 1>>}

\* the request issued last by the mounted ListPage
LastIssued == FetchRequest(currentPage, query)

\* C1: once no list fetch is in flight, the raw item list and totalPages are
\* those of the response to the last-issued request, whatever the order in
\* which the responses arrived.
C1_LastIssuedFetchWins ==
  (view = "list" /\ inflight = <<>>) => <<movies, totalPages>> \in FetchOutcomes(LastIssued)

\* C2: once no detail fetch is in flight, the movie the detail view shows is
\* the one fetched for the current route id.
C2_DetailShowsRouteMovie ==
  (view = "detail" /\ detailInflight = <<>> /\ ~detailIsLoading /\ error = <<>> /\ movie # <<>>)
    => movie = movieId

\* C3: a step of the mounted list view that changes the search text sets
\* currentPage to 1 and issues exactly one fetch, for page 1 of the new text;
\* and every fetch a step issues is for the page and text the step ends with.
C3_SearchTextChangeResetsPage ==
  [][(view = "list" /\ view' = "list")
       => /\ (query' # query)
               => /\ currentPage' = 1
                  /\ inflight' = Append(inflight, FetchRequest(1, query'))
          /\ (Len(inflight') > Len(inflight))
               => inflight' = Append(inflight, FetchRequest(currentPage', query'))]_vars

\* the search text was changed on page 2 while the fetch for page 2 was pending
C3_Witness ==
  /\ view = "list"
  /\ query # <<>>
  /\ currentPage = 1
  /\ Len(inflight) = 2
  /\ inflight[1] = [endpoint |-> "popular", query |-> <<>>, page |-> 2]
  /\ inflight[2] = [endpoint |-> "search", query |-> Trim(query), page |-> 1]

\* C4: the displayed list of the mounted list view is the filter/sort of
\* the current raw items under the current genre selection and sort option.
C4_DisplayedListIsFreshDerivation ==
  view = "list" =>
    filteredAndSortedMovies \in DisplayedOutcomes(movies, selectedGenres, sortOption)

\* a filtered and re-ordered list is displayed
C4_Witness ==
  /\ view = "list"
  /\ selectedGenres # <<>>
  /\ sortOption = "title.asc"
  /\ Len(filteredAndSortedMovies) = 2
  /\ Len(movies) = 3
  /\ filteredAndSortedMovies # FilterByGenres(movies, selectedGenres)

\* C5: in a detail view entered with a sequence attached (by a card click,
\* and by the steps that follow it), the stepper's sequence is the sequence
\* captured by the last card click.
C5_StepperSequenceStaysCaptured ==
  (view = "detail" /\ locState # <<>>) => (movieIds = captured /\ locState = <<captured>>)

\* two steps into a visit: the stepper has moved on from the clicked card
C5_Witness ==
  /\ view = "detail"
  /\ backEntry # <<>>
  /\ backEntry[1].state # <<>>
  /\ Len(captured) >= 3
  /\ movieIds = captured
  /\ movieId # <<backEntry[1].id>>
  /\ StepperRendered

\* a DetailPage is mounted
DetailMounts ==
  \/ \E m \in MovieIdSet : handleCardClick(m)
  \/ \E id \in MovieIdSet : DirectLink(id)

\* C6: on mount the detail view resolves the attached sequence if there is
\* one, else the sequence whose JSON text the store holds, else the empty one.
C6_ResolveOnMount ==
  [][DetailMounts =>
       IF locState' # <<>> THEN movieIds' = locState'[1]
       ELSE IF store = <<>> THEN movieIds' = <<>>
       ELSE store[1] = JSONStringify(movieIds')]_vars

\* mounted with nothing attached, the sequence came from the store
C6_Witness ==
  /\ view = "detail"
  /\ locState = <<>>
  /\ Len(movieIds) >= 2
  /\ movie = <<>>
  /\ detailInflight = movieId

PositionOf(s, x) == CHOOSE i \in 1..Len(s) : s[i] = x

\* C8: a step from the id at position i of a sequence that contains it goes
\* to the following element for next (the first after the last) and to the
\* preceding one for prev (the last before the first).
C8_StepperWraparound ==
  [][\A d \in Directions :
       (handleNavigation(d) /\ movieId[1] \in Elements(movieIds)) =>
         LET i == PositionOf(movieIds, movieId[1])
             n == Len(movieIds)
         IN movieId' = <<movieIds[IF d = "next"
                                  THEN (IF i = n THEN 1 ELSE i + 1)
                                  ELSE (IF i = 1 THEN n ELSE i - 1)]>>]_vars

\* next from the last element of a sequence of three or more went to the first
C8_Witness ==
  /\ view = "detail"
  /\ backEntry # <<>>
  /\ Len(movieIds) >= 3
  /\ backEntry[1].id = movieIds[Len(movieIds)]
  /\ movieId = <<movieIds[1]>>

\* the stepper is shown and the route id is not in its sequence
StepDisabled ==
  StepperRendered /\ (movieIds = <<>> \/ movieId[1] \notin Elements(movieIds))

\* C9: with an empty sequence, or a route id that is not in it, a step
\* resolves no target and changes nothing.
C9_StepDisabledIsNoOp ==
  [][StepDisabled =>
       \A d \in Directions :
         /\ StepTarget(movieId, movieIds, d) = <<>>
         /\ handleNavigation(d) => UNCHANGED vars]_vars

\* the details are shown for an id that is not in the non-empty sequence
C9_Witness ==
  /\ StepDisabled
  /\ movieIds # <<>>

\* C10: goToNextPage at currentPage = totalPages changes neither the page
\* nor the pending fetches; below totalPages it adds exactly 1.
C10_NextPageClamps ==
  [][goToNextPage =>
       IF currentPage < totalPages
       THEN currentPage' = currentPage + 1
       ELSE currentPage' = currentPage /\ inflight' = inflight]_vars

\* the last page was reached by goToNextPage and its fetch is pending
C10_Witness ==
  /\ view = "list"
  /\ currentPage >= 2
  /\ currentPage = totalPages
  /\ inflight # <<>>
  /\ inflight[Len(inflight)].page = currentPage

\* C11: goToPreviousPage at currentPage = 1 changes neither the page nor the
\* pending fetches; above 1 it subtracts exactly 1.
C11_PreviousPageClamps ==
  [][goToPreviousPage =>
       IF currentPage > 1
       THEN currentPage' = currentPage - 1
       ELSE currentPage' = 1 /\ currentPage = 1 /\ inflight' = inflight]_vars

\* page 1 was reached from page 2 and its fetch follows the one of page 2
C11_Witness ==
  /\ view = "list"
  /\ currentPage = 1
  /\ Len(inflight) = 2
  /\ inflight[1].endpoint = inflight[2].endpoint
  /\ inflight[1].page = 2
  /\ inflight[2].page = 1

\* C12: whatever searches, page changes and fetch outcomes happened,
\* currentPage and totalPages are at least 1.
C12_PageNumbersAtLeastOne ==
  /\ currentPage >= 1
  /\ totalPages >= 1

\* page 2 shows results of a response whose total_pages was 0 or missing
C12_Witness ==
  /\ view = "list"
  /\ currentPage = 2
  /\ movies # <<>>
  /\ inflight = <<>>
  /\ totalPages = 1

\* the body of a successful answer that carries neither results nor total_pages
EmptyResponse == [results |-> <<>>, total_pages |-> <<>>]

ListFetchIssued ==
  /\ view' = "list"
  /\ view # "list" \/ Len(inflight') > Len(inflight)

\* a step in which the detail view sends a request
DetailFetchIssued ==
  /\ view' = "detail"
  /\ DetailMounts \/ Len(detailInflight') > Len(detailInflight)

\* C14: the step that issues a fetch leaves the view loading, and for the
\* detail view, the only one that keeps an error, with the error cleared;
\* the request is pending in that same state.
C14_IssuingFetchEntersLoading ==
  [][/\ ListFetchIssued => isLoading' /\ inflight' # <<>>
     /\ DetailFetchIssued =>
          /\ detailIsLoading'
          /\ error' = <<>>
          /\ detailInflight' # <<>>]_vars

\* the fetch of the movie stepped to has failed, and the browser's back
\* button has issued the fetch of the movie shown before
C14_Witness ==
  /\ view = "detail"
  /\ movie # <<>>
  /\ movie = movieId
  /\ detailInflight = movieId
  /\ backEntry = <<>>
  /\ detailIsLoading
  /\ error = <<>>

\* s without the spaces at its two ends
WithoutOuterSpaces(s) ==
  LET filled == {i \in 1..Len(s) : s[i] # " "}
  IN IF filled = {} THEN <<>>
     ELSE SubSeq(s, CHOOSE i \in filled : \A j \in filled : i <= j,
                    CHOOSE i \in filled : \A j \in filled : i >= j)

\* C15: a fetch for (query, currentPage) sends one request: to the search
\* endpoint with the trimmed text and the page when the trimmed text is
\* longer than 1, to the popular endpoint with the page otherwise.
C15_EndpointSelection ==
  [][ListFetchIssued /\ view = "list" =>
       LET request == inflight'[Len(inflight')]
           text == WithoutOuterSpaces(query')
       IN /\ inflight' = Append(inflight, request)
          /\ request.page = currentPage'
          /\ IF Len(text) > 1
             THEN request.endpoint = "search" /\ request.query = text
             ELSE request.endpoint = "popular"]_vars

\* a text that is longer than 1 only by its spaces has been sent to the
\* popular endpoint
C15_Witness ==
  /\ view = "list"
  /\ Len(query) > 1
  /\ Len(WithoutOuterSpaces(query)) = 1
  /\ inflight # <<>>
  /\ inflight[Len(inflight)] = [endpoint |-> "popular", query |-> <<>>, page |-> 1]

\* C16: an item is displayed iff it is in the raw list, its genres include
\* every selected genre, and its rating is at least the minimum rating; the
\* list view has no minimum rating, which is a minimum of 0.
C16_FilterPredicate ==
  /\ view = "list" =>
       \A x \in DeriveItems :
         x \in Elements(filteredAndSortedMovies) <=>
           /\ x \in Elements(movies)
           /\ Elements(selectedGenres) \subseteq GenreIdsOf(x)
           /\ VoteAverage(x) >= 0
  /\ view = "gallery" =>
       \A x \in DeriveItems :
         x \in Elements(filteredMovies) <=>
           /\ x \in Elements(galleryMovies)
           /\ Elements(gallerySelectedGenres) \subseteq GenreIdsOf(x)
           /\ VoteAverage(x) >= minimumRating

\* genres 1 and 3 are selected with a minimum rating of 7.0: item 1, of
\* genres 1 and 2, is dropped and item 5, of genres 1 and 3, is kept
C16_Witness ==
  /\ view = "gallery"
  /\ Elements(gallerySelectedGenres) = {1, 3}
  /\ minimumRating = 70
  /\ 1 \in Elements(galleryMovies)
  /\ 1 \notin Elements(filteredMovies)
  /\ 5 \in Elements(filteredMovies)

\* the number of positions of s that hold x
Occurrences(s, x) == Cardinality({i \in 1..Len(s) : s[i] = x})

\* C17: the displayed list of the list view holds every raw item that
\* matches the genre selection as often as the raw list does, and nothing else.
C17_DerivePermutesMatching ==
  view = "list" =>
    \A x \in DeriveItems :
      Occurrences(filteredAndSortedMovies, x) =
        IF Elements(selectedGenres) \subseteq GenreIdsOf(x)
        THEN Occurrences(movies, x)
        ELSE 0

\* a genre filter has dropped items and the sort has re-ordered the rest
C17_Witness ==
  /\ view = "list"
  /\ selectedGenres # <<>>
  /\ Len(filteredAndSortedMovies) >= 2
  /\ Len(filteredAndSortedMovies) < Len(movies)
  /\ filteredAndSortedMovies # FilterByGenres(movies, selectedGenres)

\* C18: the displayed list is a fixed point of the derivation that made it:
\* filtering and sorting it again, with the same selection, sort option and
\* sort engine, gives the same sequence.
C18_DeriveIdempotent ==
  view = "list" =>
    \A engine \in SortEngines :
      filteredAndSortedMovies =
          ComputeFilteredAndSorted(engine, movies, selectedGenres, sortOption) =>
        ComputeFilteredAndSorted(engine, filteredAndSortedMovies, selectedGenres,
                                 sortOption) = filteredAndSortedMovies

\* the 1-based position of the first occurrence of x in s
RawPosition(s, x) == IndexOf(s, x) + 1

\* C19: no item of the displayed list stands before one that the comparator
\* of the sort option orders strictly before it, and two items for which
\* the comparator returns 0 stand in the order they have in the raw list.
C19_OrderedAndStable ==
  view = "list" =>
    \A i, j \in 1..Len(filteredAndSortedMovies) :
      i < j =>
        LET a == filteredAndSortedMovies[i]
            b == filteredAndSortedMovies[j]
            order == Comparator(a, b, sortOption)
        IN /\ order # <<>> => order[1] <= 0
           /\ order = <<0>> => RawPosition(movies, a) < RawPosition(movies, b)

\* C20: under release_date.asc no item with a date stands before an item
\* without one and the dated items are in chronological order; under
\* release_date.desc no item without a date stands before an item with one.
C20_EmptyDatesAtTheMinimum ==
  view = "list" =>
    \A i, j \in 1..Len(filteredAndSortedMovies) :
      i < j =>
        LET a == ReleaseDate(filteredAndSortedMovies[i])
            b == ReleaseDate(filteredAndSortedMovies[j])
        IN /\ sortOption = "release_date.asc" =>
                /\ ~(a # <<>> /\ b = <<>>)
                /\ a # <<>> /\ b # <<>> => a[1] <= b[1]
           /\ sortOption = "release_date.desc" => ~(a = <<>> /\ b # <<>>)

\* C21: in the list view and in the gallery view the sequence a card click
\* would attach has the length of the displayed list and holds, position by
\* position, the id of the item displayed there.
C21_AttachedIdsMirrorDisplayedList ==
  /\ view = "list" =>
       /\ Len(listMovieIds) = Len(filteredAndSortedMovies)
       /\ \A i \in 1..Len(listMovieIds) : listMovieIds[i] = filteredAndSortedMovies[i]
  /\ view = "gallery" =>
       /\ Len(galleryMovieIds) = Len(filteredMovies)
       /\ \A i \in 1..Len(galleryMovieIds) : galleryMovieIds[i] = filteredMovies[i]

\* the cards of a filtered or re-ordered list are shown
C21_Witness ==
  /\ view = "list"
  /\ ~isLoading
  /\ Len(listMovieIds) >= 2
  /\ listMovieIds # movies

\* C22: while sessionStorage throws on writes, a card click still mounts the
\* detail view on the attached sequence, with no error and both steps
\* resolving a target, a step keeps the sequence, and neither changes the
\* content of the store.
C22_WriteFailureAbsorbed ==
  [][storage # "ok" =>
       /\ \A m \in MovieIdSet :
            handleCardClick(m) =>
              /\ view' = "detail"
              /\ movieIds' = listMovieIds
              /\ error' = <<>>
              /\ store' = store
              /\ \A d \in Directions : StepTarget(movieId', movieIds', d) # <<>>
       /\ \A d \in Directions :
            handleNavigation(d) =>
              /\ view' = "detail"
              /\ movieIds' = movieIds
              /\ error' = <<>>
              /\ store' = store
              /\ movieId' = StepTarget(movieId, movieIds, d)]_vars

\* a step was taken over an attached sequence that no write ever stored
C22_Witness ==
  /\ view = "detail"
  /\ storage # "ok"
  /\ store = <<>>
  /\ movieIds # <<>>
  /\ backEntry # <<>>
  /\ error = <<>>

\* the store gives no sequence: reads throw, the key is absent, or its text
\* is empty, does not parse, or parses to no array or to the empty array
StoreUnreadable ==
  \/ storage = "denied"
  \/ store = <<>>
  \/ store[1] \in CorruptTexts

\* C23: when the store gives no sequence, a mounting detail view holds the
\* attached sequence if there is one and the empty sequence otherwise, and
\* it is mounted, not crashed.
C23_ReadFailureFallsBack ==
  [][StoreUnreadable /\ (DetailMounts \/ OpenDetailWithoutId) =>
       /\ view' = "detail"
       /\ movieIds' = IF locState' # <<>> THEN locState'[1] ELSE <<>>
       /\ locState' # <<>> => \A d \in Directions : StepTarget(movieId', movieIds', d) # <<>>]_vars

\* the store holds a text that does not parse, writes throw, and the detail
\* view steps over an attached sequence
C23_Witness ==
  /\ view = "detail"
  /\ storage = "full"
  /\ store = <<<<"[", "1">>>>
  /\ movieIds # <<>>
  /\ locState = <<movieIds>>
  /\ movieId # <<>>
  /\ movieId[1] \in Elements(movieIds)

C25_AnsweredViewLeavesLoading ==
  /\ view = "list" /\ inflight = <<>> => ~isLoading
  /\ view = "detail" /\ detailInflight = <<>> => ~detailIsLoading
  /\ view = "gallery" /\ ~galleryPending => ~galleryIsLoading

\* the list and detail parts of C25, whose fetches end in a finally block
C25_ListAndDetailLeaveLoading ==
  /\ view = "list" /\ inflight = <<>> => ~isLoading
  /\ view = "detail" /\ detailInflight = <<>> => ~detailIsLoading

\* C26: a fetch that succeeds while no other request of its view is in
\* flight leaves its response's items and total pages (list) or its movie
\* (detail), no recorded error, and the loading flag false.
C26_LaterSuccessStandsAlone ==
  [][/\ \A data \in UNION {ServerResponses(r) : r \in Elements(inflight)} :
          FetchSucceeds(1, data) /\ Len(inflight) = 1 =>
            /\ movies' = ResultsOrEmpty(data)
            /\ totalPages' = TotalPagesOf(data)
            /\ ~isLoading'
     /\ DetailFetchSucceeds(1) /\ Len(detailInflight) = 1 =>
          /\ movie' = <<detailInflight[1]>>
          /\ error' = <<>>
          /\ ~detailIsLoading']_vars

\* the list part of C26
C26_ListSuccessStandsAlone ==
  [][\A data \in UNION {ServerResponses(r) : r \in Elements(inflight)} :
       FetchSucceeds(1, data) /\ Len(inflight) = 1 =>
         /\ movies' = ResultsOrEmpty(data)
         /\ totalPages' = TotalPagesOf(data)
         /\ ~isLoading']_vars

\* C27: in a list view with no fetch in flight the current page does not
\* exceed the total pages.
C27_PageWithinTotal ==
  view = "list" /\ inflight = <<>> => currentPage <= totalPages

\* C28: a list fetch completing while a later issued one is still in flight
\* leaves the loading flag true.
C28_EarlierCompletionKeepsLoading ==
  [][\A i \in 1..Len(inflight) :
       /\ i < Len(inflight)
       /\ \/ FetchFails(i)
          \/ \E data \in ServerResponses(inflight[i]) : FetchSucceeds(i, data)
       => isLoading']_vars

\* C29: a card click in the list or in the gallery attaches a sequence in
\* which the clicked id occurs, the detail view mounts on that id with that
\* sequence resolved, stepping is enabled and both directions have a target.
C29_ActivatedIdIsAttached ==
  [][\A m \in DeriveItems :
       handleCardClick(m) \/ GalleryHandleCardClick(m) =>
         /\ view' = "detail"
         /\ movieId' = <<m>>
         /\ locState' # <<>>
         /\ m \in Elements(locState'[1])
         /\ movieIds' = locState'[1]
         /\ canNavigateBetweenMovies(movieIds')
         /\ \A d \in Directions : StepTarget(movieId', movieIds', d) # <<>>]_vars

\* the detail view was opened by a card click on a list of several items
C29_Witness ==
  /\ view = "detail"
  /\ movieId # <<>>
  /\ locState = <<movieIds>>
  /\ Len(movieIds) >= 2
  /\ movieId[1] \in Elements(movieIds)
  /\ movieId[1] # movieIds[1]

\* the id reached from id by n presses of "next" over ids
RECURSIVE NextTimes(_, _, _)
NextTimes(id, ids, n) ==
  IF n = 0 THEN id ELSE NextTimes(StepTarget(id, ids, "next"), ids, n - 1)

\* C30: over the sequence the detail view holds after a card click, from
\* every id of the sequence next then prev, and prev then next, lead back
\* to the id, and as many next steps as the sequence is long lead back to it.
C30_StepsRoundTrip ==
  view = "detail" /\ captured = movieIds =>
    \A x \in Elements(movieIds) :
      /\ StepTarget(StepTarget(<<x>>, movieIds, "next"), movieIds, "prev") = <<x>>
      /\ StepTarget(StepTarget(<<x>>, movieIds, "prev"), movieIds, "next") = <<x>>
      /\ NextTimes(<<x>>, movieIds, Len(movieIds)) = <<x>>

\* the detail view stands on the last id of a captured sequence of three or
\* more, where next wraps to the first
C30_Witness ==
  /\ view = "detail"
  /\ captured = movieIds
  /\ Len(movieIds) >= 3
  /\ movieId = <<movieIds[Len(movieIds)]>>
  /\ StepTarget(movieId, movieIds, "next") = <<movieIds[1]>>

C32_FilterAndSortFrame ==
  [][(\/ \E g \in Elements(genres) : handleGenreClick(g)
      \/ clearFilters
      \/ \E opt \in SortOptions : setSortOption(opt))
     => /\ inflight' = inflight
        /\ movies' = movies
        /\ query' = query
        /\ currentPage' = currentPage
        /\ totalPages' = totalPages
        /\ isLoading' = isLoading]_vars

\* a genre and a sort option are chosen on page 2 while its fetch is in flight
C32_Witness ==
  /\ view = "list"
  /\ selectedGenres # <<>>
  /\ sortOption # "popularity.desc"
  /\ currentPage = 2
  /\ isLoading
  /\ inflight = <<FetchRequest(2, query)>>

\* C33: a genre toggle, a clearing of the genres and a choice of sort option
\* leave the raw item list as it was, and the list displayed after them is
\* the raw list filtered by the genres now selected and sorted by the sort
\* key now chosen, whatever was displayed before: two histories ending with
\* the same raw items, genres and sort key display the same list.
C33_DisplayedDependsOnCurrentInputs ==
  [][(\/ \E g \in Elements(genres) : handleGenreClick(g)
      \/ clearFilters
      \/ \E opt \in SortOptions : setSortOption(opt))
     => /\ movies' = movies
        /\ filteredAndSortedMovies' =
             ArraySort(sortEngine', FilterByGenres(movies', selectedGenres'), sortOption')
        /\ listMovieIds' = filteredAndSortedMovies']_vars

\* a filtered list sorted by title shows two items of equal title, whose
\* order a sort of the previously displayed list would inherit
C33_Witness ==
  /\ view = "list"
  /\ selectedGenres # <<>>
  /\ sortOption = "title.asc"
  /\ \E i, j \in 1..Len(filteredAndSortedMovies) :
       /\ i < j
       /\ Title(filteredAndSortedMovies[i]) = Title(filteredAndSortedMovies[j])
  /\ filteredAndSortedMovies # FilterByGenres(movies, selectedGenres)

====
